---------------------------- MODULE Spec2Model ----------------------------
(***************************************************************************)
(* Keyword-detector bridge of avs-device-sdk (XMOS GPIO / HID variants and *)
(* the Sensory adapter): creation, the audio drain thread, the detection   *)
(* thread with its control exchange, and the index decoding/translation.   *)
(*                                                                         *)
(* A 64-bit unsigned value is kept at its full width as the 8 bytes it     *)
(* occupies in the memory of the little-endian host: element 1 is the      *)
(* least significant byte, element 8 the most significant one.             *)
(***************************************************************************)
EXTENDS Integers, Sequences, FiniteSets, TLC

(***************************************************************************)
(* Program constants                                                       *)
(***************************************************************************)
CONTROL_CMD_PAYLOAD_LEN == 25
CONTROL_RESOURCE_ID == 224
CONTROL_CMD_ID == 175
I2C_ADDRESS == 44
PAYLOAD_BUFFER_LEN == 64
HERTZ_PER_KILOHERTZ == 1000
DEFAULT_MS_TO_PUSH == 10
COMPATIBLE_SAMPLE_RATE == 16000
COMPATIBLE_SAMPLE_SIZE_IN_BITS == 16
COMPATIBLE_NUM_CHANNELS == 1
KEY_DOWN_VALUE == 1
INT_BITS == 32

KEYWORD_STRING == "alexa"
HID_KEY_CODE == "KEY_T"

(***************************************************************************)
(* Bounds of the model                                                     *)
(***************************************************************************)
MaxSamples == 5
MaxEvents == 2
MaxRetries == 1
MaxReads == 2

(***************************************************************************)
(* 64-bit unsigned arithmetic on the byte representation                   *)
(***************************************************************************)
Byte == 0..255

Zero64 == [i \in 1..8 |-> 0]

Ones64 == [i \in 1..8 |-> 255]

\* The value n (0 <= n < 2^24) as a uint64_t.
FromNat(n) ==
    [i \in 1..8 |-> IF i = 1 THEN n % 256
                    ELSE IF i = 2 THEN (n \div 256) % 256
                    ELSE IF i = 3 THEN (n \div 65536) % 256
                    ELSE 0]

\* a + b in uint64_t arithmetic (wraps modulo 2^64): byte by byte from the
\* least significant one, each sum carrying into the next.
Add64(a, b) ==
    LET s1 == a[1] + b[1]
        s2 == a[2] + b[2] + (s1 \div 256)
        s3 == a[3] + b[3] + (s2 \div 256)
        s4 == a[4] + b[4] + (s3 \div 256)
        s5 == a[5] + b[5] + (s4 \div 256)
        s6 == a[6] + b[6] + (s5 \div 256)
        s7 == a[7] + b[7] + (s6 \div 256)
        s8 == a[8] + b[8] + (s7 \div 256)
    IN  << s1 % 256, s2 % 256, s3 % 256, s4 % 256, s5 % 256, s6 % 256, s7 % 256, s8 % 256 >>

RECURSIVE SubBytes(_, _, _, _)
SubBytes(a, b, i, borrow) ==
    IF i > 8 THEN << >>
    ELSE LET d == a[i] - b[i] - borrow
         IN  << (d + 256) % 256 >> \o SubBytes(a, b, i + 1, IF d < 0 THEN 1 ELSE 0)

\* The wrapping difference one byte-wise addition away from the right one.
Sub64Swapped(a, b) == SubBytes(b, a, 1, 0)

\* a - b in uint64_t arithmetic (wraps modulo 2^64).
Sub64(a, b) == SubBytes(a, b, 1, 0)

RECURSIVE LeqFrom(_, _, _)
LeqFrom(a, b, i) ==
    IF i = 0 THEN TRUE
    ELSE IF a[i] # b[i] THEN a[i] < b[i]
    ELSE LeqFrom(a, b, i - 1)

\* a <= b as unsigned 64-bit values.
Leq64(a, b) == LeqFrom(a, b, 8)

(***************************************************************************)
(* readIndex, copy + byte swap form                                        *)
(***************************************************************************)
\* memcpy(&u64value, &payload[start_index], sizeof(uint64_t)): the 8 payload
\* bytes become the memory of the value, lowest address first.
memcpy64(payload, start_index) == [i \in 1..8 |-> payload[start_index + i - 1]]

\* The copy without the swap.
bswap_64_Missing(v) == v

\* __bswap_64: byte i of the value is exchanged with byte 9 - i.
bswap_64(v) == [i \in 1..8 |-> v[9 - i]]

readIndex(payload, start_index) == bswap_64(memcpy64(payload, start_index))

(***************************************************************************)
(* readIndex, manual shift form                                            *)
(*   value += payload[i] << ((8-(i-start_index)-1)*8);                     *)
(* payload[i] is promoted to a 32-bit int before the shift.  A shift by 32 *)
(* or more is undefined: the builds for the targets of this code either    *)
(* take the count modulo 32 ("mask32": x86-64, AArch64) or shift every bit *)
(* out ("zero": ARMv7 register shift).  A shift by 24 of a byte >= 128     *)
(* gives a negative int, which is sign-extended when added to the          *)
(* uint64_t.                                                               *)
(***************************************************************************)
ShiftUB == {"mask32", "zero"}

\* (int)b << count for count in {0, 8, 16, 24}, converted to uint64_t.
IntShiftAsU64(b, count) ==
    LET pos == (count \div 8) + 1
        negative == (count = INT_BITS - 8) /\ (b >= 128)
    IN  [i \in 1..8 |-> IF i = pos THEN b
                        ELSE IF i > 4 /\ negative THEN 255
                        ELSE 0]

\* One term of the sum: (int)b << count, as the build ub computes it.
ShiftTerm(b, count, ub) ==
    IF count < INT_BITS THEN IntShiftAsU64(b, count)
    ELSE IF ub = "mask32" THEN IntShiftAsU64(b, count % INT_BITS)
    ELSE Zero64

RECURSIVE ShiftSum(_, _, _, _)
ShiftSum(payload, start_index, i, ub) ==
    IF i = start_index + 8 THEN Zero64
    ELSE Add64(ShiftTerm(payload[i], (8 - (i - start_index) - 1) * 8, ub),
               ShiftSum(payload, start_index, i + 1, ub))

\* The values the manual readIndex can return for one payload field.
readIndexByShift(payload, start_index) ==
    { ShiftSum(payload, start_index, start_index, ub) : ub \in ShiftUB }

(***************************************************************************)
(* Device side of the wire format: status byte, then three 64-bit indices  *)
(* most significant byte first.                                            *)
(***************************************************************************)
\* v written as 8 big-endian bytes at buf[start .. start + 8).
WriteBE(buf, start, v) ==
    [k \in DOMAIN buf |-> IF k >= start /\ k < start + 8 THEN v[8 - (k - start)]
                          ELSE buf[k]]

FilledBuffer(b) == [k \in 0..(PAYLOAD_BUFFER_LEN - 1) |-> b]

(***************************************************************************)
(* Inputs of create() and the environment it runs in                       *)
(***************************************************************************)
Variants == {"KWD_GPIO", "KWD_HID", "XMOS_GPIO", "XMOS_HID", "SENSORY"}

GpioVariants == {"KWD_GPIO", "XMOS_GPIO"}

HidVariants == {"KWD_HID", "XMOS_HID"}

\* The variants whose readIndex is the manual shift form.
ShiftVariants == {"KWD_GPIO", "KWD_HID"}

CompatibleFormat == [encoding |-> "LPCM", endianness |-> "LITTLE", sampleRateHz |-> COMPATIBLE_SAMPLE_RATE, sampleSizeInBits |-> COMPATIBLE_SAMPLE_SIZE_IN_BITS, numChannels |-> COMPATIBLE_NUM_CHANNELS]

\* The required format and one deviation in each field.
AudioFormats ==
    { CompatibleFormat,
      [CompatibleFormat EXCEPT !.encoding = "OPUS"],
      [CompatibleFormat EXCEPT !.endianness = "BIG"],
      [CompatibleFormat EXCEPT !.sampleRateHz = 8000],
      [CompatibleFormat EXCEPT !.sampleSizeInBits = 8],
      [CompatibleFormat EXCEPT !.numChannels = 2] }

EnvOk == [wiringPi |-> TRUE, i2cOpen |-> TRUE, i2cAddr |-> TRUE, hid |-> TRUE, usbInit |-> TRUE, usbFound |-> TRUE, usbOpen |-> TRUE, reader |-> TRUE]

\* Everything works, or exactly one of the calls made by init fails.
Environments ==
    { EnvOk } \cup { [EnvOk EXCEPT ![f] = FALSE] : f \in DOMAIN EnvOk }

\* The device calls the variant makes while opening its device.
DeviceCalls(v) ==
    IF v \in GpioVariants THEN {"wiringPi", "i2cOpen", "i2cAddr"}
    ELSE IF v \in HidVariants THEN {"hid", "usbInit", "usbFound", "usbOpen"}
    ELSE {}

\* The push granularities create() is called with: the default of its
\* declaration, used when the argument is omitted, and another one.
PushGranularities == { DEFAULT_MS_TO_PUSH, 2 * DEFAULT_MS_TO_PUSH }

\* The configuration without a sampleApp.sensory node.
NoConfig == [node |-> FALSE, hasPath |-> FALSE, modelFilePath |-> ""]

\* The configurations the Sensory component factory can find: no
\* sampleApp.sensory node, a node without modelFilePath, a node whose
\* modelFilePath is empty, a node that names a model file.
SensoryConfigs ==
    { NoConfig,
      [node |-> TRUE, hasPath |-> FALSE, modelFilePath |-> ""],
      [node |-> TRUE, hasPath |-> TRUE, modelFilePath |-> ""],
      [node |-> TRUE, hasPath |-> TRUE, modelFilePath |-> "spot-alexa.snsr"] }

\* The configurations that matter to the variant's factory.
ConfigsOf(v) == IF v = "SENSORY" THEN SensoryConfigs ELSE { NoConfig }

\* AbstractKeywordDetector::isByteswappingRequired on the little-endian host.
isByteswappingRequired(audioFormat) == audioFormat.endianness # "LITTLE"

\* isAudioFormatCompatibleWithGPIOKW / ...WithHIDKW / ...WithSensory
isAudioFormatCompatible(audioFormat) ==
    /\ audioFormat.encoding = "LPCM"
    /\ audioFormat.endianness = "LITTLE"
    /\ audioFormat.sampleRateHz = COMPATIBLE_SAMPLE_RATE
    /\ audioFormat.sampleSizeInBits = COMPATIBLE_SAMPLE_SIZE_IN_BITS
    /\ audioFormat.numChannels = COMPATIBLE_NUM_CHANNELS

\* Whether create() of the variant checks the format against the required tuple.
ChecksFormat(v) == v \in {"KWD_GPIO", "KWD_HID", "SENSORY"}

(***************************************************************************)
(* State                                                                   *)
(***************************************************************************)
VARIABLES
    variant,             \* which detector class is being created
    args,                \* the pending call of create(): its arguments and the environment, NoArgs once create() has returned
    createResult,        \* "none" before create(), "initializing" between the thread starts of init(), then "null" or "detector"
    createLog,           \* the reason create() logged, "ok" on success
    openFailed,          \* a device open/configure call made by init failed
    m_maxSamplesPerPush, \* capacity of one drain read, in samples
    handles,             \* m_fileDescriptor, m_evdev, m_devh
    reader,              \* m_streamReader: created, closed, cursor
    m_beginIndexOfStreamReader,
    m_isShuttingDown,
    readPc,              \* position of the drain thread (readAudioLoop)
    detPc,               \* position of the detection thread (detectionLoop)
    dtorPc,              \* position of the destructor
    currentIndex,        \* detectionLoop local: tell() sampled for the iteration
    oldGpioValue,        \* detectionLoop local
    gpioValue,           \* detectionLoop local
    payload,             \* detectionLoop local: unsigned char payload[64]
    cmd_ret,             \* detectionLoop local
    deviceIndexes,       \* detectionLoop locals currentDeviceIndex, beginKWDeviceIndex, endKWDeviceIndex
    nTrig,               \* how many times the trigger source was read: pin samples or input events
    ev,                  \* the input event of the iteration, a local of the HID loops' body
    nFires,              \* how many reads fired the trigger
    edgeRun,             \* how many of the first reads agree with EdgeSamples, up to the first that does not
    nTransactions,       \* control transactions issued by the fire in progress
    lastNotif,           \* the keyword notification being delivered to the observers
    nKwNotifs,           \* keyword notifications issued so far
    stateNotifs,         \* detector-state notifications issued so far
    nReads,              \* buffers of samples the reads have moved the cursor over
    didErrorOccur,       \* readAudioLoop's local: whether its latest readFromStream reported an error
    delivered,           \* a transaction of the fire in progress has transferred a response with status 0
    drainedSince,        \* what the drain thread did since the tell() sample in use was taken
    request,             \* the control request the latest transaction of the fire in progress sent
    lastEnd,             \* history: the end index of the latest keyword notification, where it is recorded
    ix                   \* readIndex applied to one payload field on its own

mainVars == << variant, args, createResult, createLog, openFailed, m_maxSamplesPerPush, handles, reader, m_beginIndexOfStreamReader, m_isShuttingDown, readPc, detPc, dtorPc, currentIndex, oldGpioValue, gpioValue, payload, cmd_ret, deviceIndexes, nTrig, ev, nFires, edgeRun, nTransactions, lastNotif, nKwNotifs, stateNotifs, nReads, didErrorOccur, delivered, drainedSince, request, lastEnd >>

vars == << variant, args, createResult, createLog, openFailed, m_maxSamplesPerPush, handles, reader, m_beginIndexOfStreamReader, m_isShuttingDown, readPc, detPc, dtorPc, currentIndex, oldGpioValue, gpioValue, payload, cmd_ret, deviceIndexes, nTrig, ev, nFires, edgeRun, nTransactions, lastNotif, nKwNotifs, stateNotifs, nReads, didErrorOccur, delivered, drainedSince, request, lastEnd, ix >>

detLocals == << currentIndex, oldGpioValue, gpioValue, payload, cmd_ret, deviceIndexes >>

ghosts == << nTrig, ev, nFires, edgeRun, nTransactions >>

watch == << didErrorOccur, delivered, drainedSince, request, lastEnd >>

created == << variant, args, createResult, createLog, openFailed, m_maxSamplesPerPush, handles >>

NoArgs == [called |-> FALSE]

NoNotif == [keyword |-> "", begin |-> Zero64, end |-> Zero64]

NoHandles == [m_fileDescriptor |-> "unset", m_evdev |-> "unset", m_devh |-> "unset"]

NoReader == [created |-> FALSE, closed |-> FALSE, cursor |-> Zero64]

NoEvent == [rc |-> 0, type |-> "none", code |-> "none", value |-> 0]
NoIndexes == [current |-> Zero64, begin |-> Zero64, end |-> Zero64]

IxIdle == [pc |-> "idle"]

\* No transaction issued.
NoRequest == [bus |-> "none"]

\* The value of lastEnd in the specifications that keep no record of the
\* notifications' end indices.
EndsNotRecorded == << >>

\* The calls of create() that are explored: every variant, with or without a
\* stream, every format of AudioFormats, and the environments in which at most
\* one of the calls the variant makes fails.
CallsOf(v) ==
    { [called |-> TRUE, stream |-> st, audioFormat |-> fmt, ms |-> ms, config |-> cfg, env |-> e] :
        st \in BOOLEAN, fmt \in AudioFormats, ms \in PushGranularities, cfg \in ConfigsOf(v),
        e \in { x \in Environments : \A f \in DOMAIN EnvOk : ~x[f] => f \in DeviceCalls(v) \cup {"reader"} } }

\* Nothing constructed yet.
NotConstructed ==
    /\ createResult = "none"
    /\ createLog = "none"
    /\ openFailed = FALSE
    /\ m_maxSamplesPerPush = 0
    /\ handles = NoHandles
    /\ reader = NoReader
    /\ m_beginIndexOfStreamReader = Zero64
    /\ m_isShuttingDown = FALSE
    /\ readPc = "off"
    /\ detPc = "off"
    /\ dtorPc = "none"
    /\ currentIndex = Zero64
    /\ oldGpioValue = "HIGH"
    /\ gpioValue = "HIGH"
    /\ payload = FilledBuffer(0)
    /\ cmd_ret = 0
    /\ deviceIndexes = NoIndexes
    /\ nTrig = 0
    /\ ev = NoEvent
    /\ nFires = 0
    /\ edgeRun = 0
    /\ nTransactions = 0
    /\ lastNotif = NoNotif
    /\ nKwNotifs = 0
    /\ stateNotifs = << >>
    /\ nReads = 0
    /\ didErrorOccur = FALSE
    /\ delivered = FALSE
    /\ drainedSince = "none"
    /\ request = NoRequest

MainInit ==
    /\ variant \in Variants
    /\ args \in CallsOf(variant)
    /\ NotConstructed

Init == MainInit /\ ix = IxIdle /\ lastEnd = EndsNotRecorded

\* The same, with the end index of the latest notification recorded (0 while
\* there was none).
InitEnds == MainInit /\ ix = IxIdle /\ lastEnd = Zero64

(***************************************************************************)
(* create(), the constructor and init()                                    *)
(***************************************************************************)
\* A value returned through a uint8_t return type.
Uint8(x) == x % 256

\* What openDevice() / openI2CDevice() / openUSBDevice() returns, as an int.
\*   KWD_GPIO  openI2CDevice: uint8_t, -1 on failure, the descriptor otherwise
\*   XMOS_GPIO openDevice:    uint8_t, false on wiringPi failure, -1 on I2C failure, 0 on success
\*   KWD_HID   openUSBDevice: uint8_t, -1 on failure, 0 on success
\*   XMOS_HID  openDevice:    bool, a missing HID device is only logged
openReturn(v, env) ==
    IF v = "KWD_GPIO" THEN Uint8(IF env.i2cOpen /\ env.i2cAddr THEN 3 ELSE -1)
    ELSE IF v = "XMOS_GPIO" THEN
        (IF ~env.wiringPi THEN Uint8(0)
         ELSE IF ~env.i2cOpen \/ ~env.i2cAddr THEN Uint8(-1)
         ELSE Uint8(0))
    ELSE IF v = "KWD_HID" THEN
        (IF ~env.hid \/ ~env.usbInit \/ ~env.usbFound \/ ~env.usbOpen THEN Uint8(-1) ELSE Uint8(0))
    ELSE IF v = "XMOS_HID" THEN
        (IF ~env.usbInit \/ ~env.usbFound \/ ~env.usbOpen THEN 0 ELSE 1)
    ELSE 0

\* The test init() applies to the value returned by the open call.
openRejected(v, env) ==
    IF v = "KWD_GPIO" THEN (~env.wiringPi) \/ (openReturn(v, env) < 0)
    ELSE IF v = "XMOS_GPIO" THEN openReturn(v, env) < 0
    ELSE IF v = "KWD_HID" THEN openReturn(v, env) # 0
    ELSE IF v = "XMOS_HID" THEN openReturn(v, env) = 0
    ELSE FALSE

\* The handles init() leaves behind when it goes on to start the threads.
handlesAfterOpen(v, env) ==
    IF v \in GpioVariants THEN
        [NoHandles EXCEPT !.m_fileDescriptor = IF env.wiringPi /\ env.i2cOpen /\ env.i2cAddr THEN "valid" ELSE "invalid"]
    ELSE IF v \in HidVariants THEN
        [NoHandles EXCEPT !.m_evdev = (IF env.hid THEN "valid" ELSE "invalid"), !.m_devh = "valid"]
    ELSE NoHandles

\* init() that does not check the reader it created.
initSucceeds_ReaderUnchecked(v, env) == ~openRejected(v, env)

\* init(): TRUE when it returns true.  KWD_HID creates the reader before it
\* opens the device, the other variants after.
initSucceeds(v, env) == ~openRejected(v, env) /\ env.reader

\* Whether init() got as far as creating the stream reader.
readerCreatedByInit(v, env) ==
    IF v = "KWD_HID" THEN env.reader
    ELSE ~openRejected(v, env) /\ env.reader

\* (audioFormat.sampleRateHz / HERTZ_PER_KILOHERTZ) * msToPushPerIteration.count()
maxSamplesPerPush(audioFormat, ms) == (audioFormat.sampleRateHz \div HERTZ_PER_KILOHERTZ) * ms

\* The granularity create() hands to the constructor: the Sensory create()
\* forwards its msToPushPerIteration, the GPIO and HID create() call the
\* constructor without it, which then takes the default of its declaration.
msPassedToConstructor(v, ms) == IF v = "SENSORY" THEN ms ELSE DEFAULT_MS_TO_PUSH

\* std::string modelFilePath; if (config) config.getString("modelFilePath", &modelFilePath);
modelFilePathRead(config) == IF config.node /\ config.hasPath THEN config.modelFilePath ELSE ""

\* The factory going on to create() whatever the configuration holds.
factoryRejects_Never(v, config) == ""

\* The reason the component factory returns nullptr before it calls
\* create(), "" if none: the Sensory factory needs a model file path.
factoryRejects(v, config) ==
    IF v = "SENSORY" /\ modelFilePathRead(config) = "" THEN "emptyModelFilePath" ELSE ""

\* create() with only the null-stream check.
createRejects_StreamOnly(v, stream, audioFormat) == IF ~stream THEN "nullStream" ELSE ""

\* The reason create() returns nullptr before constructing a detector, "" if none.
createRejects(v, stream, audioFormat) ==
    IF ~stream THEN "nullStream"
    ELSE IF isByteswappingRequired(audioFormat) THEN "endianMismatch"
    ELSE IF ChecksFormat(v) /\ ~isAudioFormatCompatible(audioFormat) THEN "incompatibleFormat"
    ELSE ""

\* init() with the thread starts exchanged.
initThreadOrder_DetectionFirst(v) == << "detection", "readAudio" >>

\* init() starting the detection thread only.
initThreadOrder_DetectionOnly(v) == << "detection" >>

\* The threads init() starts, in the order it starts them: m_readAudioThread
\* then m_detectionThread; the Sensory init() starts m_detectionThread only.
initThreadOrder(v) ==
    IF v = "SENSORY" THEN << "detection" >> ELSE << "readAudio", "detection" >>

\* The position of the drain thread after thread t was started.
readPcAfterStart(t, pc) == IF t = "readAudio" THEN "test" ELSE pc

\* The position of the detection thread after thread t was started.
detPcAfterStart(t, pc) == IF t = "detection" THEN "start" ELSE pc

\* Some device call the variant makes fails in this environment.
deviceCallFails(v, env) == \E f \in DeviceCalls(v) : ~env[f]

Create ==
    /\ args.called
    /\ createResult = "none"
    /\ LET refused == factoryRejects(variant, args.config)
           why == IF refused # "" THEN refused ELSE createRejects(variant, args.stream, args.audioFormat)
           ok == initSucceeds(variant, args.env)
       IN  IF why # "" THEN
               /\ createResult' = "null"
               /\ createLog' = why
               /\ UNCHANGED << openFailed, m_maxSamplesPerPush, handles, reader, m_isShuttingDown, readPc, detPc >>
           ELSE
               /\ m_maxSamplesPerPush' = maxSamplesPerPush(args.audioFormat, msPassedToConstructor(variant, args.ms))
               /\ openFailed' = (deviceCallFails(variant, args.env) /\ (variant = "KWD_HID" => args.env.reader))
               /\ reader' = [NoReader EXCEPT !.created = readerCreatedByInit(variant, args.env)]
               /\ IF ok THEN
                      \* up to the start of the first thread
                      /\ createResult' = IF Len(initThreadOrder(variant)) = 1 THEN "detector" ELSE "initializing"
                      /\ createLog' = "ok"
                      /\ handles' = handlesAfterOpen(variant, args.env)
                      /\ m_isShuttingDown' = FALSE
                      /\ readPc' = readPcAfterStart(initThreadOrder(variant)[1], readPc)
                      /\ detPc' = detPcAfterStart(initThreadOrder(variant)[1], detPc)
                  ELSE
                      \* the unique_ptr destroys the detector: the destructor
                      \* sets the flag and finds no thread to join
                      /\ createResult' = "null"
                      /\ createLog' = "initDetectorFailed"
                      /\ handles' = NoHandles
                      /\ m_isShuttingDown' = TRUE
                      /\ UNCHANGED << readPc, detPc >>
    /\ args' = NoArgs
    /\ UNCHANGED << variant, m_beginIndexOfStreamReader, dtorPc, currentIndex, oldGpioValue, gpioValue, payload, cmd_ret, deviceIndexes, nTrig, ev, nFires, edgeRun, nTransactions, lastNotif, nKwNotifs, stateNotifs, nReads, ix, watch >>

\* init() clearing the flag after the first thread was started.
InitStartSecond_ResetsFlag ==
    /\ createResult = "initializing"
    /\ m_isShuttingDown' = FALSE
    /\ readPc' = readPcAfterStart(initThreadOrder(variant)[2], readPc)
    /\ detPc' = detPcAfterStart(initThreadOrder(variant)[2], detPc)
    /\ createResult' = "detector"
    /\ UNCHANGED << variant, args, createLog, openFailed, m_maxSamplesPerPush, handles, reader, m_beginIndexOfStreamReader, dtorPc, detLocals, ghosts, lastNotif, nKwNotifs, stateNotifs, nReads, ix, watch >>

\* The rest of init(): the second thread is started, init() returns true and
\* create() returns the detector.  The first thread is already running.
InitStartSecond ==
    /\ createResult = "initializing"
    /\ readPc' = readPcAfterStart(initThreadOrder(variant)[2], readPc)
    /\ detPc' = detPcAfterStart(initThreadOrder(variant)[2], detPc)
    /\ createResult' = "detector"
    /\ UNCHANGED << variant, args, createLog, openFailed, m_maxSamplesPerPush, handles, reader, m_beginIndexOfStreamReader, m_isShuttingDown, dtorPc, detLocals, ghosts, lastNotif, nKwNotifs, stateNotifs, nReads, ix, watch >>

(***************************************************************************)
(* The outboard device and the trigger sources                             *)
(***************************************************************************)
\* Index triples the device reports: an ordinary detection, one whose indices
\* straddle 2^32, and one whose begin index is ahead of its current index.
DeviceTriples ==
    { [current |-> FromNat(1000), begin |-> FromNat(900), end |-> FromNat(950)],
      [current |-> << 16, 0, 0, 0, 1, 0, 0, 0 >>, begin |-> << 240, 255, 255, 255, 0, 0, 0, 0 >>, end |-> << 0, 0, 0, 0, 1, 0, 0, 0 >>],
      [current |-> FromNat(5), begin |-> FromNat(10), end |-> FromNat(7)] }

\* The 25 bytes of one response: the status byte, then the three indices.
Response(status, t) ==
    WriteBE(WriteBE(WriteBE([k \in 0..(CONTROL_CMD_PAYLOAD_LEN - 1) |-> IF k = 0 THEN status ELSE 0], 1, t.current), 9, t.begin), 17, t.end)

DeviceResponses ==
    { Response(0, t) : t \in DeviceTriples } \cup { Response(1, NoIndexes) }

\* What the indeterminate payload[64] can hold when a fire declares it: any
\* bytes; one buffer whose byte 0 is zero and one whose byte 0 is not.
IndeterminatePayloads == { FilledBuffer(0), [FilledBuffer(0) EXCEPT ![0] = 255] }

\* The buffer after a transfer of CONTROL_CMD_PAYLOAD_LEN bytes into it.
Received(buf, response) ==
    [k \in DOMAIN buf |-> IF k < CONTROL_CMD_PAYLOAD_LEN THEN response[k] ELSE buf[k]]

PinValues == {"LOW", "HIGH"}

\* The pin samples of the edge example: LOW, LOW, HIGH, LOW, LOW.
EdgeSamples == << "LOW", "LOW", "HIGH", "LOW", "LOW" >>

\* The count of leading reads that agree with EdgeSamples, after one more read.
edgeRunAfter(run, n, g) ==
    IF run = n /\ n < Len(EdgeSamples) /\ g = EdgeSamples[n + 1] THEN run + 1 ELSE run

\* The values digitalRead can return: while samples are counted either
\* level, afterwards the level the pin was last seen at, which it keeps.
PinReads(n, last) == IF n < MaxSamples THEN PinValues ELSE { last }

\* Level-triggered: fires on every LOW sample.
fallingEdge_Level(value, old) == value = "LOW"

\* gpioValue == LOW && oldGpioValue == HIGH
fallingEdge(value, old) == value = "LOW" /\ old = "HIGH"

\* Results of libevdev_next_event: rc and the event it filled in.  On a failed
\* read ev keeps whatever it held.
HidEvents ==
    { [rc |-> 0, type |-> "EV_KEY", code |-> "KEY_T", value |-> 1],
      [rc |-> 0, type |-> "EV_KEY", code |-> "KEY_T", value |-> 0],
      [rc |-> 0, type |-> "EV_KEY", code |-> "KEY_T", value |-> 2],
      [rc |-> 0, type |-> "EV_KEY", code |-> "KEY_A", value |-> 1],
      [rc |-> 0, type |-> "EV_MSC", code |-> "MSC_SCAN", value |-> 1],
      [rc |-> -11, type |-> "EV_KEY", code |-> "KEY_T", value |-> 1] }

\* libevdev_next_event on the non-blocking descriptor with no event pending:
\* -EAGAIN.
NoEventPending == [rc |-> -11, type |-> "EV_KEY", code |-> "KEY_T", value |-> 1]

\* What libevdev_next_event can return: while events are counted any of
\* HidEvents, afterwards no further event arrives.
EventReads(n) == IF n < MaxEvents THEN HidEvents ELSE { NoEventPending }

\* The test without the check of the return code.
keyDown_IgnoringRc(e) == e.type = "EV_KEY" /\ e.code = HID_KEY_CODE /\ e.value = KEY_DOWN_VALUE

\* rc == 0 && type is EV_KEY && code is HID_KEY_CODE && ev.value == 1
keyDown(e) == e.rc = 0 /\ e.type = "EV_KEY" /\ e.code = HID_KEY_CODE /\ e.value = KEY_DOWN_VALUE

\* currentIndex - (currentDeviceIndex - beginKWDeviceIndex) with the operands exchanged.
beginKWServerIndex_Swapped(hostCurrent, deviceCurrent, deviceBegin) == Sub64(hostCurrent, Sub64(deviceBegin, deviceCurrent))

\* auto beginKWServerIndex = currentIndex - (currentDeviceIndex - beginKWDeviceIndex);
beginKWServerIndex(hostCurrent, deviceCurrent, deviceBegin) == Sub64(hostCurrent, Sub64(deviceCurrent, deviceBegin))

\* The variant's readIndex of the field at start_index, in the build ub.
decodedBy(v, buf, start_index, ub) ==
    IF v \in ShiftVariants THEN ShiftSum(buf, start_index, start_index, ub)
    ELSE readIndex(buf, start_index)

\* The values the variant's readIndex can return for the field at start_index.
decoded(v, buf, start_index) == { decodedBy(v, buf, start_index, ub) : ub \in ShiftUB }

\* The offsets with the end index read one byte further on.
indexOffset_EndShifted(field) ==
    IF field = "current" THEN 1 ELSE IF field = "begin" THEN 9 ELSE 18

\* readIndex(payload, 1), readIndex(payload, 9), readIndex(payload, 17)
indexOffset(field) ==
    IF field = "current" THEN 1 ELSE IF field = "begin" THEN 9 ELSE 17

\* A notification that reports the end index the device sent.
notificationFor_DeviceEnd(hostCurrent, deviceCurrent, deviceBegin, deviceEnd) ==
    [keyword |-> KEYWORD_STRING, begin |-> beginKWServerIndex(hostCurrent, deviceCurrent, deviceBegin), end |-> deviceEnd]

\* A notification whose end index is translated like its begin index.
notificationFor_EndTranslated(hostCurrent, deviceCurrent, deviceBegin, deviceEnd) ==
    [keyword |-> KEYWORD_STRING, begin |-> beginKWServerIndex(hostCurrent, deviceCurrent, deviceBegin),
     end |-> Sub64(hostCurrent, Sub64(deviceCurrent, deviceEnd))]

\* notifyKeyWordObservers(m_stream, KEYWORD_STRING, beginKWServerIndex, currentIndex):
\* endKWDeviceIndex is only logged.
notificationFor(hostCurrent, deviceCurrent, deviceBegin, deviceEnd) ==
    [keyword |-> KEYWORD_STRING, begin |-> beginKWServerIndex(hostCurrent, deviceCurrent, deviceBegin), end |-> hostCurrent]

\* The retry loop also ending when shutdown was requested.
retryLoopContinues_UntilShutdown(ret, shuttingDown) == ret # 0 /\ ~shuttingDown

\* while (cmd_ret != 0): the condition of the retry loop.
retryLoopContinues(ret, shuttingDown) == ret # 0

\* cmd_ret taken from the buffer as the fire finds it.
cmdRetAtFire_FromBuffer(buf) == buf[0]

\* uint8_t cmd_ret = 1;
cmdRetAtFire(buf) == 1

\* The I2C repeated start: read_hdr written with .len = 3, then .len =
\* CONTROL_CMD_PAYLOAD_LEN bytes read into payload.
i2cRequest ==
    [bus |-> "i2c", addr |-> I2C_ADDRESS,
     read_hdr |-> << CONTROL_RESOURCE_ID, CONTROL_CMD_ID, CONTROL_CMD_PAYLOAD_LEN % 256 >>,
     writeLen |-> 3, readLen |-> CONTROL_CMD_PAYLOAD_LEN, readInto |-> PAYLOAD_BUFFER_LEN]

\* libusb_control_transfer(m_devh, ..., 0, CONTROL_CMD_ID, CONTROL_RESOURCE_ID, payload, CONTROL_CMD_PAYLOAD_LEN, USB_TIMEOUT_MS)
usbRequest ==
    [bus |-> "usb", bRequest |-> 0, wValue |-> CONTROL_CMD_ID, wIndex |-> CONTROL_RESOURCE_ID,
     wLength |-> CONTROL_CMD_PAYLOAD_LEN, readInto |-> PAYLOAD_BUFFER_LEN]

\* The request one pass of the retry loop sends.
controlRequest(v) == IF v \in GpioVariants THEN i2cRequest ELSE usbRequest

(***************************************************************************)
(* detectionLoop                                                           *)
(***************************************************************************)
\* m_beginIndexOfStreamReader = tell() where the variant has it, then the
\* ACTIVE notification and the initialisation of the locals.
DetStart ==
    /\ detPc = "start"
    /\ m_beginIndexOfStreamReader' = IF variant \in {"KWD_GPIO", "SENSORY"} THEN reader.cursor ELSE m_beginIndexOfStreamReader
    /\ stateNotifs' = Append(stateNotifs, "ACTIVE")
    /\ oldGpioValue' = "HIGH"
    /\ detPc' = "test"
    /\ UNCHANGED << created, reader, m_isShuttingDown, readPc, dtorPc, currentIndex, gpioValue, payload, cmd_ret, deviceIndexes, ghosts, lastNotif, nKwNotifs, nReads, ix, watch >>

\* while (!m_isShuttingDown)
DetTest ==
    /\ detPc = "test"
    /\ detPc' = IF m_isShuttingDown THEN "exit" ELSE "body"
    /\ UNCHANGED << created, reader, m_beginIndexOfStreamReader, m_isShuttingDown, readPc, dtorPc, detLocals, ghosts, lastNotif, nKwNotifs, stateNotifs, nReads, ix, watch >>

\* auto currentIndex = m_streamReader->tell();
DetTell ==
    /\ detPc = "body"
    /\ variant # "SENSORY"
    /\ currentIndex' = reader.cursor
    /\ detPc' = "trigger"
    /\ drainedSince' = "none"
    /\ UNCHANGED << created, reader, m_beginIndexOfStreamReader, m_isShuttingDown, readPc, dtorPc, oldGpioValue, gpioValue, payload, cmd_ret, deviceIndexes, ghosts, lastNotif, nKwNotifs, stateNotifs, nReads, ix, didErrorOccur, delivered, request, lastEnd >>

\* digitalRead(GPIO_PIN) and the edge test (the samples are counted up to
\* MaxSamples); on a fire the payload buffer and
\* cmd_ret = 1 are declared, otherwise the iteration ends with
\* oldGpioValue = gpioValue and currentIndex goes out of scope.
DetSample ==
    /\ detPc = "trigger"
    /\ variant \in GpioVariants
    /\ \E g \in PinReads(nTrig, gpioValue) :
        /\ gpioValue' = g
        /\ nTrig' = IF nTrig < MaxSamples THEN nTrig + 1 ELSE nTrig
        /\ edgeRun' = IF nTrig < MaxSamples THEN edgeRunAfter(edgeRun, nTrig, g) ELSE edgeRun
        /\ IF fallingEdge(g, oldGpioValue) THEN
               /\ nFires' = nFires + 1
               /\ payload' \in IndeterminatePayloads
               /\ cmd_ret' = cmdRetAtFire(payload')
               /\ detPc' = IF retryLoopContinues(cmd_ret', m_isShuttingDown) THEN "transact" ELSE "decode"
               /\ UNCHANGED << oldGpioValue, currentIndex, drainedSince >>
           ELSE
               /\ oldGpioValue' = g
               /\ currentIndex' = Zero64
               /\ detPc' = "test"
               /\ drainedSince' = "none"
               /\ UNCHANGED << nFires, payload, cmd_ret >>
    /\ UNCHANGED << created, reader, m_beginIndexOfStreamReader, m_isShuttingDown, readPc, dtorPc, deviceIndexes, ev, nTransactions, lastNotif, nKwNotifs, stateNotifs, nReads, ix, didErrorOccur, delivered, request, lastEnd >>

\* libevdev_next_event and the key-down test.
DetEvent ==
    /\ detPc = "trigger"
    /\ variant \in HidVariants
    /\ \E e \in EventReads(nTrig) :
        /\ nTrig' = IF nTrig < MaxEvents THEN nTrig + 1 ELSE nTrig
        /\ IF keyDown(e) THEN
               /\ ev' = e
               /\ nFires' = nFires + 1
               /\ payload' \in IndeterminatePayloads
               /\ cmd_ret' = cmdRetAtFire(payload')
               /\ detPc' = IF variant = "KWD_HID" THEN "retell"
                           ELSE IF retryLoopContinues(cmd_ret', m_isShuttingDown) THEN "transact" ELSE "decode"
               /\ drainedSince' = IF variant = "KWD_HID" THEN "none" ELSE drainedSince
               /\ UNCHANGED currentIndex
           ELSE
               /\ ev' = NoEvent
               /\ currentIndex' = Zero64
               /\ detPc' = "test"
               /\ drainedSince' = "none"
               /\ UNCHANGED << nFires, payload, cmd_ret >>
    /\ UNCHANGED << created, reader, m_beginIndexOfStreamReader, m_isShuttingDown, readPc, dtorPc, oldGpioValue, gpioValue, deviceIndexes, edgeRun, nTransactions, lastNotif, nKwNotifs, stateNotifs, nReads, ix, didErrorOccur, delivered, request, lastEnd >>

\* KWD/HID only: current_index = m_streamReader->tell(); once more after the
\* event.  In this variant the sample in use is this one, taken after the
\* trigger was observed, and drainedSince counts from the observation.
DetRetell ==
    /\ detPc = "retell"
    /\ currentIndex' = reader.cursor
    /\ detPc' = IF retryLoopContinues(cmd_ret, m_isShuttingDown) THEN "transact" ELSE "decode"
    /\ drainedSince' = "none"
    /\ UNCHANGED << created, reader, m_beginIndexOfStreamReader, m_isShuttingDown, readPc, dtorPc, oldGpioValue, gpioValue, payload, cmd_ret, deviceIndexes, ghosts, lastNotif, nKwNotifs, stateNotifs, nReads, ix, didErrorOccur, delivered, request, lastEnd >>

\* The handle the control transaction goes through is usable.
controlHandleValid ==
    IF variant \in GpioVariants THEN handles.m_fileDescriptor = "valid" ELSE handles.m_devh = "valid"

\* One pass of while (cmd_ret != 0): the I2C repeated start or the USB control
\* transfer, then cmd_ret = payload[0].  A failed transaction leaves the
\* buffer as it was.  The transactions of a fire are counted up to
\* MaxRetries + 1.
DetTransact ==
    /\ detPc = "transact"
    /\ \E outcome \in {"transferred", "failed"} :
        /\ outcome = "transferred" => controlHandleValid
        /\ IF outcome = "transferred"
           THEN \E r \in DeviceResponses :
                    /\ payload' = Received(payload, r)
                    /\ delivered' = (delivered \/ r[0] = 0)
           ELSE /\ payload' = payload
                /\ delivered' = delivered
    /\ cmd_ret' = payload'[0]
    /\ request' = controlRequest(variant)
    /\ nTransactions' = IF nTransactions <= MaxRetries THEN nTransactions + 1 ELSE nTransactions
    /\ detPc' = IF retryLoopContinues(cmd_ret', m_isShuttingDown) THEN "transact" ELSE "decode"
    /\ UNCHANGED << created, reader, m_beginIndexOfStreamReader, m_isShuttingDown, readPc, dtorPc, currentIndex, oldGpioValue, gpioValue, deviceIndexes, nTrig, ev, nFires, edgeRun, lastNotif, nKwNotifs, stateNotifs, nReads, ix, didErrorOccur, drainedSince, lastEnd >>

\* The fire's block without the call of notifyKeyWordObservers.
DetNotify_Silent ==
    /\ detPc = "decode"
    /\ \E c \in decoded(variant, payload, indexOffset("current")),
          b \in decoded(variant, payload, indexOffset("begin")),
          e \in decoded(variant, payload, indexOffset("end")) :
        deviceIndexes' = [current |-> c, begin |-> b, end |-> e]
    /\ detPc' = "notified"
    /\ UNCHANGED << created, reader, m_beginIndexOfStreamReader, m_isShuttingDown, readPc, dtorPc, currentIndex, oldGpioValue, gpioValue, payload, cmd_ret, ghosts, lastNotif, nKwNotifs, stateNotifs, nReads, ix, watch >>

\* readIndex of the three fields, the translation and notifyKeyWordObservers.
DetNotify ==
    /\ detPc = "decode"
    /\ LET currentDeviceIndex == decoded(variant, payload, indexOffset("current"))
           beginKWDeviceIndex == decoded(variant, payload, indexOffset("begin"))
           endKWDeviceIndex == decoded(variant, payload, indexOffset("end"))
       IN  \E c \in currentDeviceIndex, b \in beginKWDeviceIndex, e \in endKWDeviceIndex :
               /\ deviceIndexes' = [current |-> c, begin |-> b, end |-> e]
               /\ lastNotif' = notificationFor(currentIndex, c, b, e)
    /\ lastEnd' = IF lastEnd = EndsNotRecorded THEN lastEnd ELSE lastNotif'.end
    /\ nKwNotifs' = nKwNotifs + 1
    /\ detPc' = "notified"
    /\ UNCHANGED << created, reader, m_beginIndexOfStreamReader, m_isShuttingDown, readPc, dtorPc, currentIndex, oldGpioValue, gpioValue, payload, cmd_ret, ghosts, stateNotifs, nReads, ix, didErrorOccur, delivered, drainedSince, request >>

\* The end of the fire's block and of the iteration, where their locals go
\* out of scope and the notification has been delivered (oldGpioValue = gpioValue in the GPIO loops).
DetEndFire ==
    /\ detPc = "notified"
    /\ payload' = FilledBuffer(0)
    /\ cmd_ret' = 0
    /\ deviceIndexes' = NoIndexes
    /\ nTransactions' = 0
    /\ lastNotif' = NoNotif
    /\ currentIndex' = Zero64
    /\ ev' = NoEvent
    /\ delivered' = FALSE
    /\ drainedSince' = "none"
    /\ request' = NoRequest
    /\ oldGpioValue' = IF variant \in GpioVariants THEN gpioValue ELSE oldGpioValue
    /\ detPc' = "test"
    /\ UNCHANGED << created, reader, m_beginIndexOfStreamReader, m_isShuttingDown, readPc, dtorPc, gpioValue, nTrig, nFires, edgeRun, nKwNotifs, stateNotifs, nReads, ix, didErrorOccur, lastEnd >>

(***************************************************************************)
(* The stream reader as readFromStream drives it                           *)
(***************************************************************************)
\* Outcomes of one readFromStream call: a full buffer, a timeout, an overrun
\* (the reader is moved up to the writer) or an error.  A closed reader only
\* reports the error.
ReadOutcomes(r) == IF r.closed THEN {"error"} ELSE {"data", "timeout", "overrun", "error"}

\* How many buffers of samples the call moves the cursor over: the one it
\* read, or on an overrun up to the writer, taken one more buffer ahead.
buffersMoved(outcome) ==
    IF outcome = "data" THEN 1 ELSE IF outcome = "overrun" THEN 2 ELSE 0

\* The cursor after the call.
cursorAfter(cursor, outcome, nWords) ==
    IF outcome = "data" THEN Add64(cursor, FromNat(nWords))
    ELSE IF outcome = "overrun" THEN Add64(cursor, FromNat(nWords + nWords))
    ELSE cursor

\* The Sensory loop leaving the origin where it was.
originAfterRead_Kept(origin, outcome, tell) == origin

\* else if (wordsRead == OVERRUN) m_beginIndexOfStreamReader = m_streamReader->tell();
originAfterRead(origin, outcome, tell) == IF outcome = "overrun" THEN tell ELSE origin

\* The Sensory loop: one readFromStream per iteration; an error leaves the
\* loop, an overrun re-anchors m_beginIndexOfStreamReader.
DetSensoryRead ==
    /\ detPc = "body"
    /\ variant = "SENSORY"
    /\ \E outcome \in ReadOutcomes(reader) :
        /\ nReads + buffersMoved(outcome) <= MaxReads
        /\ reader' = [reader EXCEPT !.cursor = cursorAfter(reader.cursor, outcome, m_maxSamplesPerPush)]
        /\ nReads' = nReads + buffersMoved(outcome)
        /\ m_beginIndexOfStreamReader' = originAfterRead(m_beginIndexOfStreamReader, outcome, reader'.cursor)
        /\ detPc' = IF outcome = "error" THEN "exit" ELSE "test"
    /\ UNCHANGED << created, m_isShuttingDown, readPc, dtorPc, detLocals, ghosts, lastNotif, nKwNotifs, stateNotifs, ix, watch >>

\* After the loop: the GPIO loops and the Sensory loop close the reader, the
\* HID loops do not.
DetExit ==
    /\ detPc = "exit"
    /\ reader' = IF variant \in HidVariants THEN reader ELSE [reader EXCEPT !.closed = TRUE]
    /\ detPc' = "done"
    /\ UNCHANGED << created, m_beginIndexOfStreamReader, m_isShuttingDown, readPc, dtorPc, detLocals, ghosts, lastNotif, nKwNotifs, stateNotifs, nReads, ix, watch >>

(***************************************************************************)
(* readAudioLoop                                                           *)
(***************************************************************************)
\* The variants whose drain loop sets the shutdown flag on a stream error.
StopsOnStreamError(v) == v \in {"XMOS_GPIO", "XMOS_HID"}

\* A drain loop that takes an overrun for an error.
fatalToDrainLoop_Overrun(v, outcome) == outcome \in {"error", "overrun"} /\ StopsOnStreamError(v)

\* if (didErrorOccur) m_isShuttingDown = true; the overrun is not reported
\* through didErrorOccur.
fatalToDrainLoop(v, outcome) == outcome = "error" /\ StopsOnStreamError(v)

\* A drain loop that does not test the flag.
ReadTest_IgnoringFlag ==
    /\ readPc = "test"
    /\ readPc' = "read"
    /\ UNCHANGED << created, reader, m_beginIndexOfStreamReader, m_isShuttingDown, detPc, dtorPc, detLocals, ghosts, lastNotif, nKwNotifs, stateNotifs, nReads, ix, watch >>

\* A drain loop that waits while the detection thread is in its retry loop.
ReadTest_WaitsForExchange ==
    /\ readPc = "test"
    /\ detPc # "transact"
    /\ readPc' = IF m_isShuttingDown THEN "done" ELSE "read"
    /\ UNCHANGED << created, reader, m_beginIndexOfStreamReader, m_isShuttingDown, detPc, dtorPc, detLocals, ghosts, lastNotif, nKwNotifs, stateNotifs, nReads, ix, watch >>

\* while (!m_isShuttingDown)
ReadTest ==
    /\ readPc = "test"
    /\ readPc' = IF m_isShuttingDown THEN "done" ELSE "read"
    /\ UNCHANGED << created, reader, m_beginIndexOfStreamReader, m_isShuttingDown, detPc, dtorPc, detLocals, ghosts, lastNotif, nKwNotifs, stateNotifs, nReads, ix, watch >>

\* The statement the drain thread executes next is readFromStream on
\* m_streamReader.
DrainAccessesReader == readPc = "read"

\* The statement the detection thread of a GPIO or HID detector executes next
\* is m_streamReader->tell() or m_streamReader->close().
DetectionAccessesReader ==
    /\ variant # "SENSORY"
    /\ \/ detPc \in {"body", "retell"}
       \/ detPc = "start" /\ variant = "KWD_GPIO"
       \/ detPc = "exit" /\ variant \in GpioVariants

\* The positions of the detection loop at which a tell() sample is held for
\* use: from the tell() of the iteration to the end of the iteration.
TellInUse == {"trigger", "retell", "transact", "decode", "notified"}

\* What the drain thread has done since the sample was taken, after one more
\* read: nothing that moved the cursor, a read of data, or an overrun.
drainedAfter(since, outcome, pc) ==
    IF pc \notin TellInUse THEN since
    ELSE IF outcome = "overrun" THEN "overrun"
    ELSE IF outcome = "data" /\ since = "none" THEN "read"
    ELSE since

ReadStream ==
    /\ readPc = "read"
    /\ \E outcome \in ReadOutcomes(reader) :
        /\ nReads + buffersMoved(outcome) <= MaxReads
        /\ reader' = [reader EXCEPT !.cursor = cursorAfter(reader.cursor, outcome, m_maxSamplesPerPush)]
        /\ nReads' = nReads + buffersMoved(outcome)
        /\ didErrorOccur' = (outcome = "error")
        /\ drainedSince' = drainedAfter(drainedSince, outcome, detPc)
        /\ m_isShuttingDown' = IF fatalToDrainLoop(variant, outcome) THEN TRUE ELSE m_isShuttingDown
    /\ readPc' = "test"
    /\ UNCHANGED << created, m_beginIndexOfStreamReader, detPc, dtorPc, detLocals, ghosts, lastNotif, nKwNotifs, stateNotifs, ix, delivered, request, lastEnd >>

(***************************************************************************)
(* The destructor                                                          *)
(***************************************************************************)
DtorStart ==
    /\ createResult = "detector"
    /\ dtorPc = "none"
    /\ m_isShuttingDown' = TRUE
    /\ dtorPc' = "joinDetection"
    /\ UNCHANGED << created, reader, m_beginIndexOfStreamReader, readPc, detPc, detLocals, ghosts, lastNotif, nKwNotifs, stateNotifs, nReads, ix, watch >>

\* The destructor returning without waiting for the detection thread.
DtorJoinDetection_NoWait ==
    /\ dtorPc = "joinDetection"
    /\ dtorPc' = IF variant = "SENSORY" THEN "done" ELSE "joinReadAudio"
    /\ UNCHANGED << created, reader, m_beginIndexOfStreamReader, m_isShuttingDown, readPc, detPc, detLocals, ghosts, lastNotif, nKwNotifs, stateNotifs, nReads, ix, watch >>

\* m_detectionThread.join()
DtorJoinDetection ==
    /\ dtorPc = "joinDetection"
    /\ detPc = "done"
    /\ dtorPc' = IF variant = "SENSORY" THEN "done" ELSE "joinReadAudio"
    /\ UNCHANGED << created, reader, m_beginIndexOfStreamReader, m_isShuttingDown, readPc, detPc, detLocals, ghosts, lastNotif, nKwNotifs, stateNotifs, nReads, ix, watch >>

\* The destructor returning without waiting for the drain thread.
DtorJoinReadAudio_NoWait ==
    /\ dtorPc = "joinReadAudio"
    /\ dtorPc' = "done"
    /\ UNCHANGED << created, reader, m_beginIndexOfStreamReader, m_isShuttingDown, readPc, detPc, detLocals, ghosts, lastNotif, nKwNotifs, stateNotifs, nReads, ix, watch >>

\* m_readAudioThread.join()
DtorJoinReadAudio ==
    /\ dtorPc = "joinReadAudio"
    /\ readPc = "done"
    /\ dtorPc' = "done"
    /\ UNCHANGED << created, reader, m_beginIndexOfStreamReader, m_isShuttingDown, readPc, detPc, detLocals, ghosts, lastNotif, nKwNotifs, stateNotifs, nReads, ix, watch >>

Next ==
    \/ Create
    \/ InitStartSecond
    \/ DetStart
    \/ DetTest
    \/ DetTell
    \/ DetSample
    \/ DetEvent
    \/ DetRetell
    \/ DetTransact
    \/ DetNotify
    \/ DetEndFire
    \/ DetSensoryRead
    \/ DetExit
    \/ ReadTest
    \/ ReadStream
    \/ DtorStart
    \/ DtorJoinDetection
    \/ DtorJoinReadAudio

Spec == Init /\ [][Next]_vars

SpecEnds == InitEnds /\ [][Next]_vars

\* The steps of the detection thread outside the control exchange and the
\* notification, of the drain thread and of the thread that destroys the
\* detector once it has set the flag.
DetectionThread ==
    DetStart \/ DetTest \/ DetTell \/ DetSample \/ DetEvent \/ DetRetell \/ DetEndFire \/ DetSensoryRead \/ DetExit

ReadAudioThread == ReadTest \/ ReadStream

DestructorJoins == DtorJoinDetection \/ DtorJoinReadAudio

\* The threads are scheduled by the operating system: each of them takes its
\* next step if it stays able to.  DetNotify is enabled exactly when the
\* detection thread is at "decode" and always leaves that position, so its
\* weak fairness is that the thread is not at "decode" for ever.  In the
\* retry loop the thread keeps running, but whether a transaction ever ends
\* the loop is up to the device: nothing is assumed of DetTransact.  When
\* the detector is destroyed is up to its owner.
Fairness ==
    /\ WF_vars(InitStartSecond)
    /\ WF_vars(DetectionThread)
    /\ []<>(detPc # "decode")
    /\ WF_vars(ReadAudioThread)
    /\ WF_vars(DestructorJoins)

\* The variants whose progress is checked: KWD/GPIO is left to XMOS/GPIO, whose
\* detection loop has the same steps, and to KWD/HID, which has the same
\* drain loop.
LiveVariants == Variants \ {"KWD_GPIO"}

\* create() is called with a stream, the required format, the default
\* granularity and a configuration that names a model, and every device call
\* works.
InitLive ==
    /\ variant \in LiveVariants
    /\ args = [called |-> TRUE, stream |-> TRUE, audioFormat |-> CompatibleFormat, ms |-> DEFAULT_MS_TO_PUSH, config |-> [node |-> TRUE, hasPath |-> TRUE, modelFilePath |-> "spot-alexa.snsr"], env |-> EnvOk]
    /\ NotConstructed
    /\ ix = IxIdle
    /\ lastEnd = EndsNotRecorded

SpecLive == InitLive /\ [][Next]_vars /\ Fairness

(***************************************************************************)
(* The decode and the notification of a fire on their own: two fires at    *)
(* the same host index, in the same build, whose status-0 responses differ *)
(* at most in the end index.                                               *)
(***************************************************************************)
\* The host indices tell() has returned for the two fires.
PairHosts == { Zero64, FromNat(160), FromNat(1000) }

\* The end indices the second response carries.
PairEnds == { t.end : t \in DeviceTriples } \cup { Ones64 }

InitPair ==
    /\ variant \in GpioVariants \cup HidVariants
    /\ args = NoArgs
    /\ NotConstructed
    /\ lastEnd = EndsNotRecorded
    /\ ix \in { [pc |-> "responses", ub |-> u, host |-> h,
                  first |-> Received(garbage, Response(0, t)),
                  second |-> Received(garbage, Response(0, [t EXCEPT !.end = e])),
                  out1 |-> NoNotif, out2 |-> NoNotif] :
                  u \in ShiftUB, h \in PairHosts, t \in DeviceTriples, e \in PairEnds, garbage \in IndeterminatePayloads }

\* readIndex of the three fields of a payload and the notification made of them.
notificationOf(v, buf, host, ub) ==
    notificationFor(host,
                    decodedBy(v, buf, indexOffset("current"), ub),
                    decodedBy(v, buf, indexOffset("begin"), ub),
                    decodedBy(v, buf, indexOffset("end"), ub))

\* The fire that received the first response notifies.
PairNotifyFirst ==
    /\ ix.pc = "responses"
    /\ ix' = [ix EXCEPT !.pc = "first", !.out1 = notificationOf(variant, ix.first, ix.host, ix.ub)]
    /\ UNCHANGED mainVars

\* The fire that received the second response notifies.
PairNotifySecond ==
    /\ ix.pc = "first"
    /\ ix' = [ix EXCEPT !.pc = "both", !.out2 = notificationOf(variant, ix.second, ix.host, ix.ub)]
    /\ UNCHANGED mainVars

NextPair ==
    \/ PairNotifyFirst
    \/ PairNotifySecond

SpecPair == InitPair /\ [][NextPair]_vars

(***************************************************************************)
(* readIndex on its own: a value is written into a payload as the device   *)
(* writes it, and read back by each of the two implementations.            *)
(***************************************************************************)
\* The offsets of the three indices in the payload.
IndexOffsets == {1, 9, 17}

\* 0, 1, 2^64 - 1, a value whose eight bytes all differ, and every value
\* with a single nonzero byte of 1, 128 or 255.
IndexValues ==
    { Zero64, Ones64, FromNat(1), << 8, 7, 6, 5, 4, 3, 2, 1 >> }
    \cup { [i \in 1..8 |-> IF i = pos THEN b ELSE 0] : pos \in 1..8, b \in {1, 128, 255} }

InitIndex ==
    /\ variant = "XMOS_GPIO"
    /\ args = NoArgs
    /\ NotConstructed
    /\ lastEnd = EndsNotRecorded
    /\ ix \in { [pc |-> "input", value |-> v, start |-> st, buf |-> FilledBuffer(b), out |-> Zero64] :
                  v \in IndexValues, st \in IndexOffsets, b \in {0, 255} }

\* The device writes the value at the offset.
IndexEncode ==
    /\ ix.pc = "input"
    /\ ix' = [ix EXCEPT !.pc = "encoded", !.buf = WriteBE(ix.buf, ix.start, ix.value)]
    /\ UNCHANGED mainVars

\* The copy + swap readIndex reads it back.
IndexDecodeSwap ==
    /\ ix.pc = "encoded"
    /\ ix' = [ix EXCEPT !.pc = "swapped", !.out = readIndex(ix.buf, ix.start)]
    /\ UNCHANGED mainVars

\* The manual shift readIndex reads it back.
IndexDecodeShift ==
    /\ ix.pc = "encoded"
    /\ \E value \in readIndexByShift(ix.buf, ix.start) :
        ix' = [ix EXCEPT !.pc = "shifted", !.out = value]
    /\ UNCHANGED mainVars

NextIndex ==
    \/ IndexEncode
    \/ IndexDecodeSwap
    \/ IndexDecodeShift

SpecIndex == InitIndex /\ [][NextIndex]_vars

(***************************************************************************)
(* Properties                                                              *)
(***************************************************************************)
\* The loop is inside the block of a fire: between the trigger test that
\* succeeded and the end of the iteration.
InFire == detPc \in {"retell", "transact", "decode", "notified"}

\* C1: for every fire of the GPIO and HID detectors, the keyword notification
\* carries begin = hostCurrent - (deviceCurrent - deviceBegin) in 64-bit
\* arithmetic and end = hostCurrent, hostCurrent being the tell() value held
\* in currentIndex for the fire and the device indices those decoded from
\* the payload, whose status byte is 0.
C1_NotificationIndices ==
    detPc = "notified" =>
        /\ payload[0] = 0
        /\ deviceIndexes.current \in decoded(variant, payload, 1)
        /\ deviceIndexes.begin \in decoded(variant, payload, 9)
        /\ lastNotif.keyword = KEYWORD_STRING
        /\ lastNotif.begin = Sub64(currentIndex, Sub64(deviceIndexes.current, deviceIndexes.begin))
        /\ lastNotif.end = currentIndex

\* A notification of XMOS/GPIO after one buffer of 160 samples was drained:
\* host index 160, device indices 1000 and 900, begin index 60.
C1_Witness ==
    /\ variant = "XMOS_GPIO"
    /\ detPc = "notified"
    /\ currentIndex = FromNat(160)
    /\ deviceIndexes.current = FromNat(1000)
    /\ deviceIndexes.begin = FromNat(900)
    /\ lastNotif.begin = FromNat(60)
    /\ lastNotif.end = FromNat(160)

\* C2: for every triple the reader and the payload can supply, the emitted
\* begin index is at most the host current index (as unsigned 64-bit values).
C2_BeginAtMostCurrent ==
    detPc = "notified" => Leq64(lastNotif.begin, currentIndex)

\* C3: in every variant create() returns null for an audio format that
\* differs from {LPCM, little-endian, 16000 Hz, 16-bit, 1 channel}.
C3_IncompatibleFormatRejected ==
    [][(args.called /\ createResult = "none" /\ args.audioFormat # CompatibleFormat)
          => createResult' = "null"]_vars

\* C4: when opening or configuring the device fails, create() returns null
\* and neither the drain thread nor the detection thread is started.
C4_OpenFailureRejected ==
    openFailed => (createResult = "null" /\ readPc = "off" /\ detPc = "off")

\* C5: create() returns null when the stream is absent or the format needs
\* byte-swapping (is not little-endian, on the little-endian host), and then
\* no stream reader is created, no device is opened, no thread is started.
C5_ConfigurationErrors ==
    [][(args.called /\ createResult = "none" /\ (~args.stream \/ args.audioFormat.endianness # "LITTLE"))
          => /\ createResult' = "null"
             /\ ~reader'.created
             /\ handles' = NoHandles
             /\ ~openFailed'
             /\ readPc' = "off"
             /\ detPc' = "off"]_vars

\* create() has returned null for a missing stream or a big-endian format,
\* with nothing created or started.
C5_Witness ==
    /\ createResult = "null"
    /\ createLog \in {"nullStream", "endianMismatch"}
    /\ ~reader.created
    /\ handles = NoHandles
    /\ readPc = "off"
    /\ detPc = "off"

\* C6: when the samples read from the start of the loop are LOW, LOW, HIGH,
\* LOW, LOW, the trigger has fired exactly once, with one keyword
\* notification, by the end of the fifth iteration.
C6_EdgeExampleFiresOnce ==
    (variant \in GpioVariants /\ detPc = "test" /\ nTrig = Len(EdgeSamples) /\ edgeRun = Len(EdgeSamples))
        => (nFires = 1 /\ nKwNotifs = 1)

\* C7: when a sample of the pin and the sample before it are both LOW, the
\* later one does not fire: the iteration ends without a control exchange.
C7_NoFireWhileHeldLow ==
    [][(variant \in GpioVariants /\ detPc = "trigger" /\ nTrig > 0 /\ nTrig' = nTrig + 1
            /\ gpioValue = "LOW" /\ gpioValue' = "LOW")
          => (nFires' = nFires /\ detPc' = "test" /\ nTransactions' = nTransactions /\ nKwNotifs' = nKwNotifs)]_vars

\* Two samples read, both LOW, and the second has not fired.
C7_Witness ==
    /\ variant \in GpioVariants
    /\ detPc = "test"
    /\ nTrig = 2
    /\ edgeRun = 2
    /\ nFires = 1
    /\ nKwNotifs = 1

\* C8: in the HID detectors a control exchange or a keyword notification
\* happens only inside an iteration whose event was read successfully
\* (rc = 0) with type EV_KEY, code KEY_T and value 1; every other event ends
\* its iteration with neither.
C8_FireOnlyOnKeyDown ==
    variant \in HidVariants =>
        /\ InFire => (ev.rc = 0 /\ ev.type = "EV_KEY" /\ ev.code = "KEY_T" /\ ev.value = 1)
        /\ ~InFire => (nTransactions = 0 /\ lastNotif = NoNotif)
        /\ nKwNotifs <= nFires
        /\ nFires <= nTrig

\* Two events read by a HID detector: one did not fire, the other is the
\* key-down of KEY_T and its notification has been sent.
C8_Witness ==
    /\ variant \in HidVariants
    /\ detPc = "notified"
    /\ nTrig = 2
    /\ nFires = 1
    /\ nKwNotifs = 1
    /\ ev.code = "KEY_T"
    /\ ev.value = 1

\* C9: for every 8-byte field the manual shift readIndex returns the value
\* the copy + swap readIndex returns.
C9_ShiftAgreesWithSwap ==
    ix.pc = "shifted" => ix.out = readIndex(ix.buf, ix.start)

\* C10: a value written as 8 big-endian bytes at payload[start .. start + 8)
\* and decoded by the copy + swap readIndex comes back unchanged.
C10_RoundTrip ==
    ix.pc = "swapped" => ix.out = ix.value

\* The value 0x0102030405060708, whose bytes all differ, written at offset 9
\* of a payload filled with 0xFF and read back.
C10_Witness ==
    /\ ix.pc = "swapped"
    /\ ix.start = 9
    /\ ix.value = << 8, 7, 6, 5, 4, 3, 2, 1 >>
    /\ ix.buf[8] = 255
    /\ ix.buf[9] = 1
    /\ ix.out = ix.value

\* The first CONTROL_CMD_PAYLOAD_LEN bytes of the payload buffer are a
\* response of the device with status 0.
PayloadIsResponse ==
    \E r \in DeviceResponses :
        r[0] = 0 /\ \A k \in 0..(CONTROL_CMD_PAYLOAD_LEN - 1) : payload[k] = r[k]

\* C11: the control exchange of a fire ends only once a transaction of that
\* fire has delivered a payload whose status byte is 0, and a transaction
\* that leaves a nonzero status byte is followed by another transaction.
C11_ExchangeEndsOnDeliveredZero ==
    [][/\ (detPc = "transact" /\ detPc' = "decode") => delivered'
       /\ (detPc = "transact" /\ nTransactions' = nTransactions + 1 /\ cmd_ret' # 0) => detPc' = "transact"]_vars

\* C12: the indices of a keyword notification come from a transaction that
\* completed with status 0: at the notification the payload holds a response
\* of the device, never what a failed transaction left in the buffer.
C12_IndicesFromCompletedTransaction ==
    detPc = "notified" => PayloadIsResponse

\* C13: when the destructor has returned, every thread init() started has
\* left its loop and ended: both threads in the GPIO and HID variants, the
\* detection thread in the Sensory variant.
C13_DestructorJoinsThreads ==
    dtorPc = "done" =>
        /\ detPc = "done"
        /\ readPc = (IF variant = "SENSORY" THEN "off" ELSE "done")

\* The destructor of a KWD/XMOS/GPIO detector has returned after the detector
\* had drained audio and sent a keyword notification.
C13_Witness ==
    /\ variant = "XMOS_GPIO"
    /\ dtorPc = "done"
    /\ detPc = "done"
    /\ readPc = "done"
    /\ nKwNotifs >= 1
    /\ nReads >= 1

\* C14: when the destructor has returned, no device handle that init() opened
\* is still open.
C14_HandlesReleased ==
    dtorPc = "done" =>
        /\ handles.m_fileDescriptor # "valid"
        /\ handles.m_evdev # "valid"
        /\ handles.m_devh # "valid"

\* C15: in every GPIO and HID variant, once a read of the drain loop has
\* reported a stream error the shutdown flag is set.
C15_StreamErrorSetsShutdown ==
    (variant \in GpioVariants \cup HidVariants /\ didErrorOccur) => m_isShuttingDown

\* C16: no keyword notification is computed from a tell() sample taken before
\* an overrun of the drain loop that happened before the notification.
C16_NoPreOverrunIndex ==
    detPc = "notified" => drainedSince # "overrun"

\* C17: the tell() sample used for a fire is the reader cursor at the step
\* where the trigger is observed: the drain thread completes no read between
\* the sample and the observation (in KWD/HID, between the observation and
\* the sample taken after it).
C17_TellAtTrigger ==
    [][/\ (detPc = "trigger" /\ nFires' = nFires + 1 /\ variant # "KWD_HID")
            => (drainedSince = "none" /\ currentIndex = reader.cursor)
       /\ (detPc = "retell" /\ detPc' = "transact") => drainedSince = "none"]_vars

C19_NoActiveAfterShutdown ==
    [][stateNotifs' # stateNotifs => ~m_isShuttingDown]_vars

\* C20 as claimed: every created detector, Sensory included, runs a drain
\* thread and a detection thread.
C20_TwoThreads ==
    createResult = "detector" => (readPc # "off" /\ detPc # "off")

\* C20 as amended: every created detector runs a detection thread; it runs a
\* drain thread as well exactly when it is not the Sensory variant, whose
\* detection thread reads the stream itself.
C20_ThreadsPerVariant ==
    createResult = "detector" => (detPc # "off" /\ (readPc # "off" <=> variant # "SENSORY"))

\* A Sensory detector inside its loop, with no drain thread.
C20_Witness ==
    /\ variant = "SENSORY"
    /\ createResult = "detector"
    /\ detPc = "body"
    /\ readPc = "off"
    /\ stateNotifs = << "ACTIVE" >>

\* C21: the stream reader is not accessed by both threads: there is no state
\* in which the drain thread is about to read from the reader while the
\* detection thread is about to call tell() or close() on it.
C21_ReaderNotShared ==
    ~(DrainAccessesReader /\ DetectionAccessesReader)

\* C22: every fire has exactly one keyword notification, with the keyword
\* "alexa", issued after the control exchange of the fire has ended with
\* cmd_ret = 0: the notifications number the fires, less the fire whose
\* exchange is still going on, and no notification exists outside a fire.
C22_OneNotificationPerFire ==
    /\ nKwNotifs = nFires - (IF detPc \in {"retell", "transact", "decode"} THEN 1 ELSE 0)
    /\ detPc = "notified" => (lastNotif.keyword = "alexa" /\ nTransactions >= 1 /\ cmd_ret = 0)
    /\ detPc # "notified" => lastNotif = NoNotif

\* A KWD/XMOS/HID detector between two iterations, after two fires and two
\* notifications.
C22_Witness ==
    /\ variant = "XMOS_HID"
    /\ detPc = "test"
    /\ nFires = 2
    /\ nKwNotifs = 2

\* C23: the capacity of a read of a created detector is the sample rate in
\* kHz times the granularity create() was called with.
C23_CapacityFollowsGranularity ==
    [][(args.called /\ createResult = "none" /\ createResult' \in {"initializing", "detector"})
          => m_maxSamplesPerPush' = (args.audioFormat.sampleRateHz \div HERTZ_PER_KILOHERTZ) * args.ms]_vars

\* C24: the Sensory factory returns null, with no stream reader created and
\* no thread started, when the configuration has no sampleApp.sensory node,
\* or the node has no modelFilePath, or the modelFilePath is empty.
C24_MissingModelRejected ==
    [][(args.called /\ createResult = "none" /\ variant = "SENSORY"
            /\ (~args.config.node \/ ~args.config.hasPath \/ args.config.modelFilePath = ""))
          => /\ createResult' = "null"
             /\ createLog' = "emptyModelFilePath"
             /\ ~reader'.created
             /\ readPc' = "off"
             /\ detPc' = "off"]_vars

\* The Sensory factory has returned null for the missing model file path.
C24_Witness ==
    /\ variant = "SENSORY"
    /\ createResult = "null"
    /\ createLog = "emptyModelFilePath"
    /\ ~reader.created
    /\ detPc = "off"

\* C25: under fair scheduling, if no control exchange goes on for ever (each
\* sequence of transactions comes to a status of 0) then, stream reads
\* always returning, once the destructor has set the shutdown flag both
\* threads leave their loops and the destructor returns.
C25_ShutdownCompletes ==
    ([]<>(detPc # "transact")) => ((dtorPc = "joinDetection") ~> (dtorPc = "done" /\ detPc = "done" /\ readPc \in {"off", "done"}))

\* The destructor of a KWD/HID detector has returned after it had set the
\* flag while the detection thread was in its retry loop.
C25_Witness ==
    /\ variant = "KWD_HID"
    /\ dtorPc = "done"
    /\ detPc = "done"
    /\ readPc = "done"
    /\ nKwNotifs = 1
    /\ m_isShuttingDown

\* C26: while the shutdown flag is set and no transaction of the fire has
\* delivered a status of 0, the detection thread stays in the retry loop and
\* the destructor does not return.
C26_RetryLoopHoldsWithoutStatusZero ==
    [][(detPc = "transact" /\ m_isShuttingDown /\ ~delivered')
          => (detPc' = "transact" /\ dtorPc' # "done")]_vars

C28_OverrunNotFatal ==
    [][/\ (nReads' = nReads + buffersMoved("overrun"))
            => /\ m_isShuttingDown' = m_isShuttingDown
               /\ ~didErrorOccur'
               /\ readPc = "read" => readPc' = "test"
               /\ variant = "SENSORY" => detPc' = "test"
       /\ (readPc = "test" /\ readPc' # "test" /\ ~m_isShuttingDown) => readPc' = "read"]_vars

\* The drain loop of a KWD/XMOS/GPIO detector is about to read again after a
\* read that overran, with the flag clear.
C28_Witness ==
    /\ variant = "XMOS_GPIO"
    /\ drainedSince = "overrun"
    /\ readPc = "read"
    /\ ~m_isShuttingDown
    /\ ~didErrorOccur

\* C29: in the Sensory detector a read that reports an overrun is followed,
\* before the next read, by m_beginIndexOfStreamReader = tell(): after the
\* step the origin is the cursor the overrun left.
C29_ReanchorAfterOverrun ==
    [][(variant = "SENSORY" /\ nReads' = nReads + buffersMoved("overrun"))
          => m_beginIndexOfStreamReader' = reader'.cursor]_vars

\* A Sensory detector created with the default granularity after its first
\* read overran: origin and cursor are both 320.
C29_Witness ==
    /\ variant = "SENSORY"
    /\ detPc = "test"
    /\ nReads = 2
    /\ reader.cursor = FromNat(320)
    /\ m_beginIndexOfStreamReader = FromNat(320)

\* C30: the device indices of a notification are the 64-bit big-endian values
\* of payload bytes [1..9), [9..17) and [17..25).
C30_IndicesFromLayout ==
    detPc = "notified" =>
        /\ deviceIndexes.current = readIndex(payload, 1)
        /\ deviceIndexes.begin = readIndex(payload, 9)
        /\ deviceIndexes.end = readIndex(payload, 17)

C32_ShutdownFlagMonotonic ==
    [][/\ ((readPc = "off" /\ detPc = "off") /\ (readPc' # "off" \/ detPc' # "off")) => ~m_isShuttingDown'
       /\ ((readPc # "off" \/ detPc # "off") /\ m_isShuttingDown) => m_isShuttingDown']_vars

\* The drain thread of an XMOS/GPIO detector has set the flag on a stream
\* error, the destructor has set it again, and the detection thread is still
\* in its loop.
C32_Witness ==
    /\ variant = "XMOS_GPIO"
    /\ m_isShuttingDown
    /\ didErrorOccur
    /\ dtorPc = "joinDetection"
    /\ detPc = "transact"
    /\ readPc = "done"

\* C33: in the GPIO variants the drain thread issues no readFromStream on a
\* reader the detection thread has closed.
C33_NoReadAfterClose ==
    [][(variant \in GpioVariants /\ readPc = "read" /\ readPc' = "test") => ~reader.closed]_vars

\* C34: when the destructor returns the detection thread has ended and no
\* notification is being delivered, and once it has returned no step issues
\* a keyword notification or a state notification.
C34_NoNotificationAfterDestructor ==
    [][dtorPc' = "done" =>
          /\ detPc' = "done"
          /\ lastNotif' = NoNotif
          /\ dtorPc = "done" => (nKwNotifs' = nKwNotifs /\ stateNotifs' = stateNotifs)]_vars

\* A KWD/HID detector destroyed after it issued ACTIVE and two keyword
\* notifications.
C34_Witness ==
    /\ variant = "KWD_HID"
    /\ dtorPc = "done"
    /\ nKwNotifs = 2
    /\ stateNotifs = << "ACTIVE" >>

\* C35: a detector whose creation failed has no thread started and its
\* destructor joined nothing; a thread is started only by an init() that
\* created the reader and returned true, and in XMOS/HID the detection thread
\* only after the drain thread of the base init().
C35_FailedInitStartsNoThread ==
    /\ createResult = "null" => (readPc = "off" /\ detPc = "off" /\ dtorPc = "none")
    /\ (readPc # "off" \/ detPc # "off") => (createLog = "ok" /\ reader.created /\ createResult \in {"initializing", "detector"})
    /\ (variant = "XMOS_HID" /\ detPc # "off") => readPc # "off"

\* create() of an XMOS/HID detector has failed in init() because the reader
\* could not be created: the detector is destroyed and no thread exists.
C35_Witness ==
    /\ variant = "XMOS_HID"
    /\ createResult = "null"
    /\ createLog = "initDetectorFailed"
    /\ ~reader.created
    /\ m_isShuttingDown
    /\ readPc = "off"
    /\ detPc = "off"

\* C36: when the detection thread has terminated the stream reader has been
\* closed, in every variant.
C36_ReaderClosedAtThreadEnd ==
    detPc = "done" => reader.closed

\* C37: two fires that differ only in payload bytes [17..25) of the status-0
\* response emit the same notification: keyword, begin index and end index.
C37_NotificationIgnoresDeviceEnd ==
    ix.pc = "both" =>
        /\ ix.out1 = ix.out2
        /\ ix.out1.keyword = KEYWORD_STRING

\* Both fires of a KWD/GPIO detector have notified; their responses carried
\* different end indices.
C37_Witness ==
    /\ variant = "KWD_GPIO"
    /\ ix.pc = "both"
    /\ ix.first[24] # ix.second[24]
    /\ \A k \in 0..16 : ix.first[k] = ix.second[k]
    /\ ix.out1.end = FromNat(160)

\* C38: outside a fire no control transaction has been issued, and a fire
\* that has left the retry loop has issued at least one, with the request of
\* its variant, whatever the payload buffer held when the fire began.
C38_TransactionsOnlyInFire ==
    /\ ~InFire => (nTransactions = 0 /\ request = NoRequest)
    /\ detPc \in {"decode", "notified"} => (nTransactions >= 1 /\ request = controlRequest(variant))
    /\ request # NoRequest => nTransactions >= 1

\* A fire of an XMOS/HID detector whose buffer held a zero status byte to
\* begin with: its one transaction failed and the loop ended on that byte.
C38_Witness ==
    /\ variant = "XMOS_HID"
    /\ detPc = "decode"
    /\ nTransactions = 1
    /\ ~delivered
    /\ payload = FilledBuffer(0)
    /\ cmd_ret = 0

\* C39: the end index of a keyword notification is not below the end index
\* of the notification before it.
C39_EndIndexNonDecreasing ==
    [][nKwNotifs' = nKwNotifs + 1 => (lastEnd' = lastNotif'.end /\ Leq64(lastEnd, lastEnd'))]_vars

\* The second fire of a KWD/HID detector is about to notify at host index
\* 320; its first notification ended at 160.
C39_Witness ==
    /\ variant = "KWD_HID"
    /\ detPc = "decode"
    /\ nKwNotifs = 1
    /\ lastEnd = FromNat(160)
    /\ currentIndex = FromNat(320)

\* The payload with every byte past the response replaced by another value.
BeyondResponseChanged(buf) ==
    [k \in DOMAIN buf |-> IF k < 25 THEN buf[k] ELSE 255 - buf[k]]

\* C40: every I2C transaction of a fire, the first and every retry, writes
\* the 3-byte header {0xE0, 0xAF, 25} and reads 25 bytes into the 64-byte
\* payload; the three fields decoded lie within bytes [1..25), so the indices
\* the XMOS/GPIO loop decodes do not change with the bytes from index 25 on.
C40_FixedRequestAndDecodeWithinResponse ==
    /\ (variant \in GpioVariants /\ request # NoRequest) =>
           /\ request.bus = "i2c"
           /\ request.read_hdr = << 224, 175, 25 >>
           /\ request.writeLen = 3
           /\ request.readLen = 25
           /\ request.readInto = 64
    /\ (variant \in GpioVariants /\ nTransactions >= 1) => request # NoRequest
    /\ \A field \in {"current", "begin", "end"} : indexOffset(field) >= 1 /\ indexOffset(field) + 7 <= 24
    /\ (variant = "XMOS_GPIO" /\ detPc = "notified") =>
           \A field \in {"current", "begin", "end"} :
               deviceIndexes[field] \in decoded(variant, BeyondResponseChanged(payload), indexOffset(field))

\* A fire of an XMOS/GPIO detector that needed a retry has notified.
C40_Witness ==
    /\ variant = "XMOS_GPIO"
    /\ detPc = "notified"
    /\ nTransactions = 2
    /\ delivered
    /\ request = i2cRequest
    /\ deviceIndexes.end = FromNat(950)

=============================================================================
